---- MODULE Spec2Model ----
(***************************************************************************)
(* A model of cq_utils: the units bridge (cq_utils/units.py) and the       *)
(* geometry accessors (cq_utils/cadquery.py).                              *)
(*                                                                         *)
(* The units bridge is modelled as threads that call get_registry, the     *)
(* wrapper built by args_to_base_magnitude, and                            *)
(* EngineeringSystems.system_names against the one application registry.   *)
(* Quantities belong to that registry (the docstring of                    *)
(* args_to_base_magnitude: "as long as they share the same unit            *)
(* registry").  Magnitudes are exact rationals.                            *)
(***************************************************************************)
EXTENDS Integers, Sequences, FiniteSets, TLC

VARIABLES
    systems,         \* the registry's systems: name -> base unit overrides
    default_system,  \* the registry's active default system
    pc,              \* each thread's position
    call,            \* each thread's current call and its inputs
    cargs,           \* positional arguments converted so far
    ckwargs,         \* keyword arguments converted so far
    fcalls,          \* what func received, one entry per invocation
    fout,            \* how func ended
    result,          \* how the call ended
    given,           \* history: the system each thread passed last
    installed,       \* history: the system of each thread's last returned install
    last_setter,     \* history: the thread that set the default last
    decor_default,   \* history: the default active when func was wrapped
                     \* (at import, then whenever it is wrapped anew)
    passed,          \* history: quantities passed since the last install
    shapes,          \* the kernel's shape objects: id -> geometry and location
    assembly,        \* the assembly's objects: name -> shapes and location
    workplane,       \* the objects of the workplane workplane_with_copy built
    original,        \* history: the shape given to workplane_with_copy, as it was
    moved,           \* history: how far the returned copy has been moved
    component,       \* how get_positioned_component ended
    asked            \* history: the name get_positioned_component was asked for

units_vars == <<systems, default_system, pc, call, cargs, ckwargs,
                fcalls, fout, result, given, installed, last_setter,
                decor_default, passed>>
geom_vars == <<shapes, assembly, workplane, original, moved, component, asked>>
vars == <<units_vars, geom_vars>>

(***************************************************************************)
(* Bounds                                                                  *)
(***************************************************************************)
MaxArgs == 3
MaxShapes == 4
LocMod == 3

\* The thread of a model script, and a second one for the two-thread program.
Main == "main"
Threads == {Main, "other"}

NoValue == [tag |-> "none"]

(***************************************************************************)
(* Exact arithmetic on magnitudes                                          *)
(***************************************************************************)
RECURSIVE GCD(_, _)
GCD(a, b) == IF b = 0 THEN a ELSE GCD(b, a % b)

Rat(n, d) == LET g == GCD(n, d) IN [n |-> n \div g, d |-> d \div g]

RatMul(x, y) == Rat(x.n * y.n, x.d * y.d)

RatDiv(x, y) == Rat(x.n * y.d, x.d * y.n)

(***************************************************************************)
(* The registry's units: each unit's root unit and its size in root units  *)
(***************************************************************************)
UnitDefs ==
    [ meter      |-> [root |-> "meter",  factor |-> Rat(1, 1)],
      millimeter |-> [root |-> "meter",  factor |-> Rat(1, 1000)],
      inch       |-> [root |-> "meter",  factor |-> Rat(127, 5000)],
      thou       |-> [root |-> "meter",  factor |-> Rat(127, 5000000)],
      second     |-> [root |-> "second", factor |-> Rat(1, 1)],
      minute     |-> [root |-> "second", factor |-> Rat(60, 1)] ]

\* The registry's default system before any is installed, without overrides.
InitialDefault == "mks"

InitialSystems == (InitialDefault :> <<>>)

(***************************************************************************)
(* Values: quantities, plain numbers and strings                           *)
(***************************************************************************)
Quantity(m, u) == [tag |-> "quantity", magnitude |-> m, units |-> u]

Number(m) == [tag |-> "number", value |-> m]

Str(s) == [tag |-> "str", value |-> s]

IsQuantity(arg) == arg.tag = "quantity"

ArgValues ==
    { Str("x"), Number(Rat(5, 1)),
      Quantity(Rat(5, 1), "millimeter"), Quantity(Rat(2, 1), "inch"),
      Quantity(Rat(3, 1), "minute"), Quantity(Rat(1, 1), "smoot") }

KwNames == {"width", "label"}

\* What func may do: return a value (a quantity among them) or raise.
FuncOutcomes ==
    { [raised |-> FALSE, value |-> Str("part")],
      [raised |-> FALSE, value |-> Quantity(Rat(2, 1), "inch")],
      [raised |-> TRUE, value |-> Str("FuncError")] }

(***************************************************************************)
(* EngineeringSystems                                                      *)
(***************************************************************************)
NoSystem == [name |-> "None", value |-> <<>>]

\* A member whose name is not the name its definition declares.
EngineeringSystemsMisnamed ==
    << [name  |-> "si_engineering",
        value |-> <<"@system", "si_engineering", "using", "SI",
                    "millimeter", "@end">>],
       [name  |-> "us_engineering",
        value |-> <<"@system", "us_customary", "using", "US",
                    "thou", "@end">>] >>

EngineeringSystems ==
    << [name  |-> "si_engineering",
        value |-> <<"@system", "si_engineering", "using", "SI",
                    "millimeter", "@end">>],
       [name  |-> "us_engineering",
        value |-> <<"@system", "us_engineering", "using", "US",
                    "thou", "@end">>] >>

Members == {EngineeringSystems[i] : i \in 1..Len(EngineeringSystems)}

system_names == [i \in 1..Len(EngineeringSystems) |-> EngineeringSystems[i].name]

(***************************************************************************)
(* The registry                                                            *)
(***************************************************************************)
\* The one application registry, whichever call asks for it.
GetApplicationRegistry == "application_registry"

\* The name a system definition declares: "@system <name> using <group>".
DefinitionName(text) == text[2]

\* The definition's base unit lines, between the header and "@end".
DefinitionLines(text) == SubSeq(text, 5, Len(text) - 1)

\* A line "new_unit" replaces the root unit of new_unit's dimension.
DefinitionBaseUnits(text) ==
    LET lines == DefinitionLines(text)
        roots == {UnitDefs[lines[i]].root : i \in 1..Len(lines)}
    IN  [r \in roots |->
            lines[CHOOSE i \in 1..Len(lines) : UnitDefs[lines[i]].root = r]]

\* load_definitions: the system is entered under its declared name; a system
\* loaded again replaces the entry of that name.
LoadDefinitions(sys, text) ==
    [n \in DOMAIN sys \cup {DefinitionName(text)} |->
        IF n = DefinitionName(text) THEN DefinitionBaseUnits(text) ELSE sys[n]]

\* A faulty get_registry that installs whatever it is given, None too.
SystemGivenAlways(system) == TRUE

\* "if system:" - a member is true, None is not.
SystemGiven(system) == system # NoSystem

\* A faulty get_registry that sets the first member's name whatever it loaded.
DefaultToSetFirst(system) == EngineeringSystems[1].name

\* A faulty get_registry that sets the group the definition uses.
DefaultToSetGroup(system) == system.value[4]

\* The name get_registry sets as the default.
DefaultToSet(system) == system.name

\* The default system's setter refuses a name the registry does not hold.
DefaultSettable(sys, name) == name \in DOMAIN sys

(***************************************************************************)
(* Conversion to base units                                                *)
(***************************************************************************)
\* A faulty wrapper that fixes the system when func is wrapped.
ConversionSystemAtDecoration(current, at_decoration) == at_decoration

\* The system a conversion reads: the registry's default when it runs.
ConversionSystem(current, at_decoration) == current

\* The base unit of a unit's dimension: the system's override of the root
\* unit, or the root unit itself.
BaseUnitOf(units, system, sys) ==
    LET root == UnitDefs[units].root
    IN  IF root \in DOMAIN sys[system] THEN sys[system][root] ELSE root

\* to_base_units: through the root unit to the system's base unit.
ToBaseUnits(q, system, sys) ==
    LET dest    == BaseUnitOf(q.units, system, sys)
        in_root == RatMul(q.magnitude, UnitDefs[q.units].factor)
    IN  Quantity(RatDiv(in_root, UnitDefs[dest].factor), dest)

\* A unit the registry does not define cannot be converted.
Convertible(arg) == IsQuantity(arg) => arg.units \in DOMAIN UnitDefs

Returned(v) == [raised |-> FALSE, value |-> v]

Raised(e) == [raised |-> TRUE, value |-> Str(e)]

Pending == [raised |-> FALSE, value |-> NoValue]

\* A faulty conversion that takes the magnitude in the quantity's own units.
to_base_magnitude_raw(arg, system, sys) ==
    IF IsQuantity(arg)
    THEN IF Convertible(arg)
         THEN Returned(Number(arg.magnitude))
         ELSE Raised("UndefinedUnitError")
    ELSE Returned(arg)

to_base_magnitude(arg, system, sys) ==
    IF IsQuantity(arg)
    THEN IF Convertible(arg)
         THEN Returned(Number(ToBaseUnits(arg, system, sys).magnitude))
         ELSE Raised("UndefinedUnitError")
    ELSE Returned(arg)

\* A faulty wrapper that passes on what it could not convert.
ConvertArgSwallowing(arg, system, sys) ==
    IF IsQuantity(arg) /\ ~Convertible(arg)
    THEN Returned(arg)
    ELSE to_base_magnitude(arg, system, sys)

\* A faulty wrapper that converts the positional arguments only.
ConvertKwargSkipped(arg, system, sys) == Returned(arg)

\* A positional argument as the wrapper passes it on.
ConvertArg(arg, system, sys) == to_base_magnitude(arg, system, sys)

\* A keyword argument's value as the wrapper passes it on.
ConvertKwarg(arg, system, sys) == to_base_magnitude(arg, system, sys)

\* What the wrapper does with what func returned.
WrapperResult(out) == out

(***************************************************************************)
(* Calls                                                                   *)
(***************************************************************************)
Ended == {"returned", "raised"}

NoCall ==
    [op |-> "none", system |-> NoSystem, args |-> <<>>, kwargs |-> <<>>,
     pre_default |-> InitialDefault, pre_systems |-> InitialSystems]

\* A new call of an idle thread.
Enter(t, c, at, res) ==
    /\ pc[t] = "idle"
    /\ pc' = [pc EXCEPT ![t] = at]
    /\ call' = [call EXCEPT ![t] =
                  [c EXCEPT !.pre_default = default_system,
                            !.pre_systems = systems]]
    /\ cargs' = [cargs EXCEPT ![t] = <<>>]
    /\ ckwargs' = [ckwargs EXCEPT ![t] = <<>>]
    /\ fcalls' = [fcalls EXCEPT ![t] = <<>>]
    /\ fout' = [fout EXCEPT ![t] = Pending]
    /\ result' = [result EXCEPT ![t] = res]

Finish(t, out) ==
    /\ pc' = [pc EXCEPT ![t] = IF out.raised THEN "raised" ELSE "returned"]
    /\ result' = [result EXCEPT ![t] = out]

\* get_registry, line 53 and the test of line 55.
GetRegistryCall(t, choices) ==
    \E system \in choices :
        /\ Enter(t, [NoCall EXCEPT !.op = "get_registry", !.system = system],
                 IF SystemGiven(system) THEN "load" ELSE "return_registry",
                 Pending)
        /\ given' = IF system = NoSystem THEN given
                     ELSE [given EXCEPT ![t] = system.name]
        /\ UNCHANGED <<systems, default_system, installed, last_setter,
                       decor_default, passed, geom_vars>>

\* get_registry, line 56.
LoadStep(t) ==
    /\ pc[t] = "load"
    /\ IF call[t].system = NoSystem
       THEN /\ Finish(t, Raised("AttributeError"))
            /\ UNCHANGED systems
       ELSE /\ systems' = LoadDefinitions(systems, call[t].system.value)
            /\ pc' = [pc EXCEPT ![t] = "set_default"]
            /\ UNCHANGED result
    /\ UNCHANGED <<default_system, call, cargs, ckwargs, fcalls, fout,
                   given, installed, last_setter, decor_default, passed, geom_vars>>

\* get_registry, line 57.
SetDefaultStep(t) ==
    /\ pc[t] = "set_default"
    /\ IF DefaultSettable(systems, DefaultToSet(call[t].system))
       THEN /\ default_system' = DefaultToSet(call[t].system)
            /\ last_setter' = t
            /\ passed' = {}
            /\ pc' = [pc EXCEPT ![t] = "return_registry"]
            /\ UNCHANGED result
       ELSE /\ Finish(t, Raised("ValueError"))
            /\ UNCHANGED <<default_system, last_setter, passed>>
    /\ UNCHANGED <<systems, call, cargs, ckwargs, fcalls, fout,
                   given, installed, decor_default, geom_vars>>

\* get_registry, line 59.
ReturnRegistry(t) ==
    /\ pc[t] = "return_registry"
    /\ Finish(t, Returned(Str(GetApplicationRegistry)))
    /\ installed' = IF call[t].system = NoSystem THEN installed
                     ELSE [installed EXCEPT ![t] = call[t].system.name]
    /\ UNCHANGED <<systems, default_system, call, cargs, ckwargs,
                   fcalls, fout, given, last_setter, decor_default,
                   passed, geom_vars>>

\* EngineeringSystems.system_names().
SystemNamesCall(t) ==
    /\ Enter(t, [NoCall EXCEPT !.op = "system_names"], "returned",
             Returned([tag |-> "list", value |-> system_names]))
    /\ UNCHANGED <<systems, default_system, given, installed, last_setter,
                   decor_default, passed, geom_vars>>

\* The caller takes how the call ended and goes on.
Resume(t) ==
    /\ pc[t] \in Ended
    /\ pc' = [pc EXCEPT ![t] = "idle"]
    /\ call' = [call EXCEPT ![t] = NoCall]
    /\ cargs' = [cargs EXCEPT ![t] = <<>>]
    /\ ckwargs' = [ckwargs EXCEPT ![t] = <<>>]
    /\ fcalls' = [fcalls EXCEPT ![t] = <<>>]
    /\ fout' = [fout EXCEPT ![t] = Pending]
    /\ result' = [result EXCEPT ![t] = Pending]
    /\ UNCHANGED <<systems, default_system, given, installed, last_setter,
                   decor_default, passed, geom_vars>>

\* args_to_base_magnitude(func) wraps func (anew, when it is wrapped again).
Decorate(t) ==
    /\ pc[t] = "idle"
    /\ decor_default' = default_system
    /\ UNCHANGED <<systems, default_system, pc, call, cargs, ckwargs, fcalls,
                   fout, result, given, installed, last_setter, passed, geom_vars>>

\* with_base_units(*args, **kwargs) is called.
WrapperCall(t, arglists, kwargmaps) ==
    /\ pc[t] = "idle"
    /\ \E args \in arglists, kwargs \in kwargmaps :
        Enter(t, [NoCall EXCEPT !.op = "with_base_units", !.args = args,
                                !.kwargs = kwargs], "convert", Pending)
    /\ UNCHANGED <<systems, default_system, given, installed, last_setter,
                   decor_default, passed, geom_vars>>

\* Line 96: the next positional argument is converted.
ConvertArgStep(t) ==
    /\ pc[t] = "convert"
    /\ Len(cargs[t]) < Len(call[t].args)
    /\ LET out == ConvertArg(call[t].args[Len(cargs[t]) + 1],
                             ConversionSystem(default_system, decor_default),
                             systems)
       IN  IF out.raised
           THEN /\ Finish(t, out)
                /\ UNCHANGED cargs
           ELSE /\ cargs' = [cargs EXCEPT ![t] = Append(@, out.value)]
                /\ UNCHANGED <<pc, result>>
    /\ UNCHANGED <<systems, default_system, call, ckwargs, fcalls,
                   fout, given, installed, last_setter, decor_default, passed,
                   geom_vars>>

\* Lines 97-100: the next keyword argument, in the caller's order.
ConvertKwargStep(t) ==
    /\ pc[t] = "convert"
    /\ Len(cargs[t]) = Len(call[t].args)
    /\ \E k \in DOMAIN call[t].kwargs \ DOMAIN ckwargs[t] :
        LET out == ConvertKwarg(call[t].kwargs[k],
                                ConversionSystem(default_system, decor_default),
                                systems)
        IN  IF out.raised
            THEN /\ Finish(t, out)
                 /\ UNCHANGED ckwargs
            ELSE /\ ckwargs' = [ckwargs EXCEPT ![t] =
                                  [j \in DOMAIN @ \cup {k} |->
                                      IF j = k THEN out.value ELSE @[j]]]
                 /\ UNCHANGED <<pc, result>>
    /\ UNCHANGED <<systems, default_system, call, cargs, fcalls,
                   fout, given, installed, last_setter, decor_default, passed,
                   geom_vars>>

\* The quantities of a call with what was passed for each.
PassedBy(c, ca, ck) ==
    {<<c.args[i], ca[i]>> : i \in {j \in 1..Len(c.args) : IsQuantity(c.args[j])}}
    \cup
    {<<c.kwargs[k], ck[k]>> : k \in {j \in DOMAIN c.kwargs : IsQuantity(c.kwargs[j])}}

\* Line 95: func is invoked with the converted arguments.
InvokeFunc(t, track) ==
    /\ pc[t] = "convert"
    /\ Len(cargs[t]) = Len(call[t].args)
    /\ DOMAIN ckwargs[t] = DOMAIN call[t].kwargs
    /\ \E out \in FuncOutcomes :
        fout' = [fout EXCEPT ![t] = out]
    /\ fcalls' = [fcalls EXCEPT ![t] =
                    Append(@, [args |-> cargs[t], kwargs |-> ckwargs[t]])]
    /\ passed' = IF track
                 THEN passed \cup PassedBy(call[t], cargs[t], ckwargs[t])
                 ELSE passed
    /\ pc' = [pc EXCEPT ![t] = "invoked"]
    /\ UNCHANGED <<systems, default_system, call, cargs, ckwargs,
                   result, given, installed, last_setter, decor_default, geom_vars>>

\* Line 95: the wrapper ends the way func did.
WrapperReturn(t) ==
    /\ pc[t] = "invoked"
    /\ Finish(t, WrapperResult(fout[t]))
    /\ UNCHANGED <<systems, default_system, call, cargs, ckwargs,
                   fcalls, fout, given, installed, last_setter, decor_default,
                   passed, geom_vars>>

(***************************************************************************)
(* The units bridge, single-threaded                                       *)
(***************************************************************************)
UnitsInit ==
    /\ systems = InitialSystems
    /\ default_system = InitialDefault
    /\ pc = [t \in Threads |-> "idle"]
    /\ call = [t \in Threads |-> NoCall]
    /\ cargs = [t \in Threads |-> <<>>]
    /\ ckwargs = [t \in Threads |-> <<>>]
    /\ fcalls = [t \in Threads |-> <<>>]
    /\ fout = [t \in Threads |-> Pending]
    /\ result = [t \in Threads |-> Pending]
    /\ given = [t \in Threads |-> InitialDefault]
    /\ installed = [t \in Threads |-> InitialDefault]
    /\ last_setter = "none"
    /\ decor_default = InitialDefault
    /\ passed = {}

(***************************************************************************)
(* The geometry kernel: shapes, assemblies, workplanes                     *)
(***************************************************************************)
\* A shape: its geometry and its location (a translation along one axis).
Shape(g, l) == [geom |-> g, loc |-> l]

\* Locations compose by adding the translations.
Compose(a, b) == (a + b) % LocMod

InitialShapes == <<Shape("box", 0), Shape("cylinder", 1)>>

NoOriginal == [id |-> 0, value |-> Shape("none", 0)]

AssemblyNames == {"base", "lid"}

\* An assembly object: the ids of its shapes, in order, and its location.
Nodes ==
    [shapes : {<<>>, <<1>>, <<2>>, <<1, 2>>, <<2, 1>>}, loc : {0, 1}]

Assemblies == UNION {[names -> Nodes] : names \in SUBSET AssemblyNames}

\* Assembly.toCompound(): the object's shapes, located at the object.
toCompound(node, heap) ==
    [i \in 1..Len(node.shapes) |->
        Shape(heap[node.shapes[i]].geom,
              Compose(node.loc, heap[node.shapes[i]].loc))]

\* A faulty accessor that takes the last constituent.
ConstituentLast(compound) == compound[Len(compound)]

\* The constituent get_positioned_component takes from the compound.
Constituent(compound) == compound[1]

get_positioned_component(assy, name, heap) ==
    IF name \notin DOMAIN assy
    THEN Raised("KeyError")
    ELSE LET compound == toCompound(assy[name], heap)
         IN  IF Len(compound) = 0
             THEN Raised("IndexError")
             ELSE Returned(Constituent(compound))

\* A faulty workplane_with_copy that adds the shape itself.
CopyTargetShared(id, new) == id

\* shape.copy(): the id of the shape the workplane receives, given the id
\* of a new object.
CopyTarget(id, new) == new

GetPositionedComponentCall ==
    /\ \E name \in AssemblyNames \cup {"bolt"} :
        /\ asked' = name
        /\ component' = get_positioned_component(assembly, name, shapes)
    /\ UNCHANGED <<shapes, assembly, workplane, original, moved, units_vars>>

\* workplane_with_copy(shape): a new object holds the copy, and a new
\* workplane holds that object.
WorkplaneWithCopyCall ==
    /\ Len(shapes) < MaxShapes
    /\ \E id \in DOMAIN shapes :
        LET new == Len(shapes) + 1
        IN  /\ shapes' = Append(shapes, shapes[id])
            /\ workplane' = Append(<<>>, CopyTarget(id, new))
            /\ original' = [id |-> id, value |-> shapes[id]]
    /\ moved' = 0
    /\ UNCHANGED <<assembly, component, asked, units_vars>>

\* A mutation of an object of the returned workplane: Shape.move.
MoveCopy ==
    /\ \E i \in DOMAIN workplane, d \in 1..(LocMod - 1) :
        /\ shapes' = [shapes EXCEPT ![workplane[i]].loc = Compose(@, d)]
        /\ moved' = Compose(moved, d)
    /\ UNCHANGED <<assembly, workplane, original, component, asked, units_vars>>

GeomInit ==
    /\ UnitsInit
    /\ shapes = InitialShapes
    /\ assembly \in Assemblies
    /\ workplane = <<>>
    /\ original = NoOriginal
    /\ moved = 0
    /\ component = Pending
    /\ asked = ""

GeomNext ==
    \/ GetPositionedComponentCall
    \/ WorkplaneWithCopyCall
    \/ MoveCopy

GeomSpec == GeomInit /\ [][GeomNext]_vars

GeomIdle ==
    /\ shapes = InitialShapes
    /\ assembly = <<>>
    /\ workplane = <<>>
    /\ original = NoOriginal
    /\ moved = 0
    /\ component = Pending
    /\ asked = ""

Init == UnitsInit /\ GeomIdle

\* Calls with up to n arguments in all, positional and keyword.
ArgLists(n) == UNION {[1..k -> ArgValues] : k \in 0..n}

KwargMaps(n) ==
    UNION {[ks -> ArgValues] : ks \in {x \in SUBSET KwNames : Cardinality(x) <= n}}

\* The units bridge as a model script uses it: installs, wrapping and calls
\* with one argument, each call's quantities recorded.
Next ==
    \/ GetRegistryCall(Main, Members \cup {NoSystem})
    \/ LoadStep(Main)
    \/ SetDefaultStep(Main)
    \/ ReturnRegistry(Main)
    \/ SystemNamesCall(Main)
    \/ Decorate(Main)
    \/ \E n \in 0..1 : WrapperCall(Main, ArgLists(n), KwargMaps(1 - n))
    \/ ConvertArgStep(Main)
    \/ ConvertKwargStep(Main)
    \/ InvokeFunc(Main, TRUE)
    \/ WrapperReturn(Main)
    \/ Resume(Main)

Spec == Init /\ [][Next]_vars

\* The wrapper under every mix of up to MaxArgs arguments.
WrapNext ==
    \/ GetRegistryCall(Main, Members \cup {NoSystem})
    \/ LoadStep(Main)
    \/ SetDefaultStep(Main)
    \/ ReturnRegistry(Main)
    \/ \E n \in 0..MaxArgs :
          WrapperCall(Main, ArgLists(n), KwargMaps(MaxArgs - n))
    \/ ConvertArgStep(Main)
    \/ ConvertKwargStep(Main)
    \/ InvokeFunc(Main, FALSE)
    \/ WrapperReturn(Main)
    \/ Resume(Main)

WrapSpec == Init /\ [][WrapNext]_vars

\* What a thread of the two-thread program asks for: the main thread installs
\* si_engineering and the other us_engineering, and both pass five millimeters.
ThreadSystem(t) ==
    IF t = Main THEN {EngineeringSystems[1]} ELSE {EngineeringSystems[2]}

ConcArgs == {<<Quantity(Rat(5, 1), "millimeter")>>}

\* Two threads on the one registry; every step of a thread may be followed
\* by a step of the other, as nothing in get_registry locks the registry.
ConcNext ==
    \E t \in Threads :
        \/ GetRegistryCall(t, ThreadSystem(t))
        \/ LoadStep(t)
        \/ SetDefaultStep(t)
        \/ ReturnRegistry(t)
        \/ WrapperCall(t, ConcArgs, {<<>>})
        \/ ConvertArgStep(t)
        \/ InvokeFunc(t, FALSE)
        \/ WrapperReturn(t)
        \/ Resume(t)

ConcSpec == Init /\ [][ConcNext]_vars

(***************************************************************************)
(* Properties                                                              *)
(***************************************************************************)
\* The base unit of each dimension in each system, as the systems are
\* documented: si_engineering has the millimeter and us_engineering the thou
\* as the base unit of length; nothing else is overridden.
DocumentedBase ==
    [ mks            |-> [meter |-> "meter",      second |-> "second"],
      si_engineering |-> [meter |-> "millimeter", second |-> "second"],
      us_engineering |-> [meter |-> "thou",       second |-> "second"] ]

\* number is quantity q expressed in unit b.
IsValueIn(number, q, b) ==
    /\ number.tag = "number"
    /\ UnitDefs[b].root = UnitDefs[q.units].root
    /\ RatMul(number.value, UnitDefs[b].factor)
         = RatMul(q.magnitude, UnitDefs[q.units].factor)

AllConvertible(c) ==
    /\ \A i \in 1..Len(c.args) : Convertible(c.args[i])
    /\ \A k \in DOMAIN c.kwargs : Convertible(c.kwargs[k])

InWrapper(t) == call[t].op = "with_base_units"

InGetRegistry(t) == call[t].op = "get_registry"

\* C1: a call of the wrapper whose conversions succeed invokes func exactly
\* once, with as many positional arguments in the same order and the same
\* keyword names, each value the _to_base_magnitude of the original (so no
\* quantity), and the wrapper returns exactly what func returned.
C1_WrapperPassesConvertedArgs ==
    InWrapper(Main) =>
        LET c == call[Main]
            conv(v) == to_base_magnitude(v, default_system, systems).value
        IN  /\ Len(fcalls[Main]) <= 1
            /\ \A n \in 1..Len(fcalls[Main]) :
                LET got == fcalls[Main][n]
                IN  /\ Len(got.args) = Len(c.args)
                    /\ \A i \in 1..Len(c.args) :
                        /\ got.args[i] = conv(c.args[i])
                        /\ ~IsQuantity(got.args[i])
                    /\ DOMAIN got.kwargs = DOMAIN c.kwargs
                    /\ \A k \in DOMAIN c.kwargs :
                        /\ got.kwargs[k] = conv(c.kwargs[k])
                        /\ ~IsQuantity(got.kwargs[k])
            /\ (pc[Main] \in Ended /\ AllConvertible(c)) => Len(fcalls[Main]) = 1
            /\ pc[Main] = "returned" =>
                /\ Len(fcalls[Main]) = 1
                /\ result[Main] = fout[Main]
            /\ (pc[Main] \in Ended /\ Len(fcalls[Main]) = 1 /\ ~fout[Main].raised)
                => /\ pc[Main] = "returned"
                   /\ result[Main].value = fout[Main].value

\* A returned call with a string and a quantity by position, a quantity by
\* keyword, and a quantity returned by func.
C1_Witness ==
    /\ InWrapper(Main)
    /\ pc[Main] = "returned"
    /\ call[Main].args = <<Str("x"), Quantity(Rat(5, 1), "millimeter")>>
    /\ DOMAIN call[Main].kwargs = {"width"}
    /\ call[Main].kwargs["width"] = Quantity(Rat(2, 1), "inch")
    /\ default_system = "si_engineering"
    /\ fcalls[Main][1].args = <<Str("x"), Number(Rat(5, 1))>>
    /\ fcalls[Main][1].kwargs["width"] = Number(Rat(254, 5))
    /\ result[Main].value = Quantity(Rat(2, 1), "inch")

\* C2: _to_base_magnitude returns a non-quantity unchanged and, for a
\* quantity, a plain number equal to the quantity in the registry's base unit
\* of its dimension; applying it twice gives what applying it once gives.
C2_ToBaseMagnitude ==
    /\ \A v \in ArgValues :
        LET out == to_base_magnitude(v, default_system, systems)
        IN  /\ ~IsQuantity(v) => out = Returned(v)
            /\ (IsQuantity(v) /\ Convertible(v)) =>
                /\ ~out.raised
                /\ IsValueIn(out.value, v,
                             DocumentedBase[default_system][UnitDefs[v.units].root])
            /\ ~out.raised =>
                to_base_magnitude(out.value, default_system, systems) = out
    /\ InWrapper(Main) =>
        \A i \in 1..Len(cargs[Main]) :
            LET v == call[Main].args[i]
            IN  IF IsQuantity(v)
                THEN IsValueIn(cargs[Main][i], v,
                               DocumentedBase[default_system][UnitDefs[v.units].root])
                ELSE cargs[Main][i] = v

\* Five millimeters, two inches and a string converted under us_engineering.
C2_Witness ==
    /\ InWrapper(Main)
    /\ default_system = "us_engineering"
    /\ call[Main].args = <<Quantity(Rat(5, 1), "millimeter"),
                           Quantity(Rat(2, 1), "inch"), Str("x")>>
    /\ cargs[Main] = <<Number(Rat(25000, 127)), Number(Rat(2000, 1)), Str("x")>>

\* C3: when no get_registry is under way, the registry's default system is
\* the system of the latest get_registry call that gave one (the initial
\* default if none did), and the registry holds that system as its
\* definition declares it.
C3_DefaultIsLatestGiven ==
    pc[Main] \notin {"load", "set_default"} =>
        /\ default_system = given[Main]
        /\ default_system \in DOMAIN systems
        /\ \A r \in DOMAIN systems[default_system] :
            systems[default_system][r] = DocumentedBase[default_system][r]
        /\ default_system # InitialDefault =>
             DOMAIN systems[default_system] = {"meter"}
        /\ InGetRegistry(Main) => pc[Main] # "raised"

\* si_engineering installed after us_engineering, then asked for without a
\* system.
C3_Witness ==
    /\ InGetRegistry(Main)
    /\ pc[Main] = "returned"
    /\ call[Main].system = NoSystem
    /\ call[Main].pre_default = "si_engineering"
    /\ "us_engineering" \in DOMAIN systems
    /\ default_system = "si_engineering"

\* C4: get_registry() without a system returns the application registry, as
\* every get_registry call does, and leaves the registry's default system and
\* its definitions as they were when it was called.
C4_NoSystemLeavesRegistry ==
    InGetRegistry(Main) =>
        /\ pc[Main] = "returned" =>
             result[Main] = Returned(Str("application_registry"))
        /\ call[Main].system = NoSystem =>
            /\ pc[Main] \in {"return_registry", "returned"}
            /\ default_system = call[Main].pre_default
            /\ systems = call[Main].pre_systems

\* get_registry() returned after us_engineering had been installed.
C4_Witness ==
    /\ InGetRegistry(Main)
    /\ call[Main].system = NoSystem
    /\ pc[Main] = "returned"
    /\ default_system = "us_engineering"
    /\ DOMAIN systems = {"mks", "us_engineering"}

\* C7: EngineeringSystems has the two members si_engineering and
\* us_engineering; system_names() returns these two names, each once; each
\* member's name is the name its definition declares, so the default that
\* get_registry sets names the system its definition defines.
C7_NamesMatchDefinitions ==
    /\ Len(EngineeringSystems) = 2
    /\ {EngineeringSystems[i].name : i \in 1..Len(EngineeringSystems)}
         = {"si_engineering", "us_engineering"}
    /\ \A m \in Members : m.name = DefinitionName(m.value)
    /\ (call[Main].op = "system_names" /\ pc[Main] = "returned") =>
        LET names == result[Main].value.value
        IN  /\ Len(names) = 2
            /\ {names[i] : i \in 1..Len(names)}
                 = {"si_engineering", "us_engineering"}
    /\ (InGetRegistry(Main) /\ call[Main].system # NoSystem) =>
        /\ pc[Main] # "raised"
        /\ pc[Main] \in {"return_registry", "returned"} =>
            /\ default_system = call[Main].system.name
            /\ default_system \in DOMAIN systems
            /\ systems[default_system]
                 = DefinitionBaseUnits(call[Main].system.value)

\* system_names() returned while us_engineering, installed by its member's
\* name, is the default.
C7_Witness ==
    /\ call[Main].op = "system_names"
    /\ pc[Main] = "returned"
    /\ result[Main].value.value = <<"si_engineering", "us_engineering">>
    /\ default_system = "us_engineering"
    /\ systems["us_engineering"] = ("meter" :> "thou")

\* C8: the wrapper handles no error: when an argument cannot be converted
\* the call raises the conversion's error and func is never invoked; when
\* func raises the call raises that same error; func is invoked at most once.
C8_ErrorsPropagate ==
    InWrapper(Main) =>
        /\ Len(fcalls[Main]) <= 1
        /\ ~AllConvertible(call[Main]) =>
            /\ Len(fcalls[Main]) = 0
            /\ pc[Main] \in {"convert", "raised"}
            /\ pc[Main] = "raised" => result[Main] = Raised("UndefinedUnitError")
        /\ (Len(fcalls[Main]) = 1 /\ fout[Main].raised /\ pc[Main] \in Ended) =>
            /\ pc[Main] = "raised"
            /\ result[Main] = fout[Main]
        /\ pc[Main] = "raised" =>
            \/ Len(fcalls[Main]) = 0 /\ ~AllConvertible(call[Main])
            \/ Len(fcalls[Main]) = 1 /\ fout[Main].raised

\* A call that raised on its keyword argument after converting a positional
\* one, func not invoked.
C8_Witness ==
    /\ InWrapper(Main)
    /\ pc[Main] = "raised"
    /\ cargs[Main] = <<Number(Rat(1, 200))>>
    /\ DOMAIN call[Main].kwargs = {"width"}
    /\ call[Main].kwargs["width"] = Quantity(Rat(1, 1), "smoot")
    /\ fcalls[Main] = <<>>
    /\ result[Main] = Raised("UndefinedUnitError")

\* C10: the wrapper converts with the default that is active when it is
\* called: every quantity passed on since the latest install is expressed in
\* the base unit of the system that install gave, whatever default was
\* active when func was wrapped or during earlier calls, and all calls
\* between two installs pass the same quantity as the same magnitude.
C10_CallTimeDefault ==
    pc[Main] \notin {"load", "set_default"} =>
        /\ \A p \in passed :
            IsValueIn(p[2], p[1],
                      DocumentedBase[given[Main]][UnitDefs[p[1].units].root])
        /\ \A p, q \in passed : p[1] = q[1] => p[2] = q[2]
        /\ (InWrapper(Main) /\ Len(fcalls[Main]) = 1) =>
            /\ PassedBy(call[Main], fcalls[Main][1].args, fcalls[Main][1].kwargs)
                 \subseteq passed
            /\ \A i \in 1..Len(call[Main].args) :
                IsQuantity(call[Main].args[i]) =>
                    IsValueIn(fcalls[Main][1].args[i], call[Main].args[i],
                              DocumentedBase[given[Main]]
                                            [UnitDefs[call[Main].args[i].units].root])
            /\ \A k \in DOMAIN call[Main].kwargs :
                IsQuantity(call[Main].kwargs[k]) =>
                    IsValueIn(fcalls[Main][1].kwargs[k], call[Main].kwargs[k],
                              DocumentedBase[given[Main]]
                                            [UnitDefs[call[Main].kwargs[k].units].root])

\* func was wrapped under si_engineering; after us_engineering is installed
\* two calls have passed lengths in thou, this one five millimeters.
C10_Witness ==
    /\ InWrapper(Main)
    /\ pc[Main] = "returned"
    /\ decor_default = "si_engineering"
    /\ default_system = "us_engineering"
    /\ call[Main].args = <<Quantity(Rat(5, 1), "millimeter")>>
    /\ fcalls[Main][1].args = <<Number(Rat(25000, 127))>>
    /\ <<Quantity(Rat(2, 1), "inch"), Number(Rat(2000, 1))>> \in passed

\* C9: nothing in get_registry locks the registry: after a thread's
\* get_registry(s) has returned the default need not be s.  When it is not,
\* another thread's get_registry set it, to the system that thread gave, and
\* the thread's conversions then use that system's base units.
C9_OnlyAnotherThreadChangesDefault ==
    \A t \in Threads :
        /\ (installed[t] # InitialDefault
            /\ given[t] = installed[t]
            /\ pc[t] \notin {"load", "set_default"}
            /\ default_system # installed[t])
           => /\ last_setter \in Threads \ {t}
              /\ default_system = given[last_setter]
        /\ (InWrapper(t) /\ Len(cargs[t]) = 1) =>
            \E n \in {InitialDefault} \cup {given[u] : u \in Threads} :
                IsValueIn(cargs[t][1], call[t].args[1],
                          DocumentedBase[n][UnitDefs[call[t].args[1].units].root])

\* The main thread's get_registry(si_engineering) has returned, the default
\* is us_engineering, and the main thread's call has passed five millimeters
\* in thou.
C9_Witness ==
    /\ installed[Main] = "si_engineering"
    /\ default_system = "us_engineering"
    /\ InWrapper(Main)
    /\ pc[Main] = "returned"
    /\ fcalls[Main][1].args = <<Number(Rat(25000, 127))>>

\* C5: for an assembly that holds an object under the name asked for,
\* get_positioned_component returns the first constituent of the object's
\* compound: the object's first shape, located at the object; for a name the
\* assembly does not hold it raises a lookup error and returns nothing.
C5_PositionedComponent ==
    component # Pending =>
        /\ asked \notin DOMAIN assembly => component = Raised("KeyError")
        /\ (asked \in DOMAIN assembly /\ Len(assembly[asked].shapes) > 0) =>
            LET node  == assembly[asked]
                first == shapes[node.shapes[1]]
            IN  /\ ~component.raised
                /\ component.value.geom = first.geom
                /\ component.value.loc = Compose(node.loc, first.loc)
                /\ component.value = toCompound(node, shapes)[1]
        /\ (asked \in DOMAIN assembly /\ Len(assembly[asked].shapes) = 0) =>
            component = Raised("IndexError")

\* The lid holds the cylinder and then the box and is located at 1: the
\* cylinder comes back, located at 2.
C5_Witness ==
    /\ asked = "lid"
    /\ "lid" \in DOMAIN assembly
    /\ assembly["lid"] = [shapes |-> <<2, 1>>, loc |-> 1]
    /\ component = Returned(Shape("cylinder", 2))

\* C6: workplane_with_copy(shape) returns a new workplane that holds exactly
\* one object, equal to shape and another object than shape; however the
\* returned copy is moved, shape stays as it was.
C6_CopyIsIsolated ==
    original # NoOriginal =>
        /\ Len(workplane) = 1
        /\ workplane[1] # original.id
        /\ workplane[1] \in DOMAIN shapes
        /\ \A n \in DOMAIN assembly :
            \A i \in 1..Len(assembly[n].shapes) :
                workplane[1] # assembly[n].shapes[i]
        /\ shapes[original.id] = original.value
        /\ shapes[workplane[1]].geom = original.value.geom
        /\ shapes[workplane[1]].loc = Compose(original.value.loc, moved)

\* The box was copied and the copy moved; the box is where it was.
C6_Witness ==
    /\ original = [id |-> 1, value |-> Shape("box", 0)]
    /\ moved = 2
    /\ workplane = <<3>>
    /\ shapes[3] = Shape("box", 2)
    /\ shapes[1] = Shape("box", 0)

====
